---- MODULE Spec2Model ----
(***************************************************************************)
(* The three HTTP handlers of fxhash/gcloud-functions as one state machine *)
(* per invocation:                                                         *)
(*   "capture"         exports.capture  of src/unnamed/part_000            *)
(*   "websiteCapture"  exports.capture  of src/website-capture/index.js    *)
(*   "features"        exports.features of src/extract-features/index.js   *)
(* A state is one invocation: the request, the handler's position, its     *)
(* locals (browser, result, the caught error), the promises of the two     *)
(* races, and what the caller has observed (responses sent, the value that *)
(* left the handler, the order of launch / close / send).                  *)
(***************************************************************************)
EXTENDS Integers, Sequences, FiniteSets, TLC

(***************************************************************************)
(* JavaScript values of the request body.  A scalar is [t, n, s]: t is the *)
(* typeof-like tag, n the numeric payload, s the string payload.  Numbers  *)
(* are held in HALVES (n = 2 * value) so that inputs such as 255.5 exist   *)
(* and Math.round has something to do.                                     *)
(***************************************************************************)
Undefined == [t |-> "undefined", n |-> 0, s |-> ""]
Null == [t |-> "null", n |-> 0, s |-> ""]
Bool(b) == [t |-> "boolean", n |-> (IF b THEN 1 ELSE 0), s |-> ""]
Num(halves) == [t |-> "number", n |-> halves, s |-> ""]
Int2(k) == Num(2 * k)
Str(x) == [t |-> "string", n |-> 0, s |-> x]

\* typeof v
typeof(v) ==
    CASE v.t = "undefined" -> "undefined"
      [] v.t = "boolean" -> "boolean"
      [] v.t = "number" -> "number"
      [] v.t = "string" -> "string"
      [] OTHER -> "object"

\* a === b on scalars
StrictEquals(a, b) ==
    /\ a.t = b.t
    /\ a.n = b.n
    /\ a.s = b.s

\* ToBoolean: what `!v` negates
ToBoolean(v) ==
    CASE v.t = "boolean" -> v.n = 1
      [] v.t = "number" -> v.n # 0
      [] v.t = "string" -> v.s # ""
      [] OTHER -> FALSE

\* A JavaScript number after coercion: NaN, or a finite value in halves.
NaN == [nan |-> TRUE, h |-> 0]
Finite(halves) == [nan |-> FALSE, h |-> halves]

\* Number("..."): the strings that occur in numeric fields
StringToNumber(s) ==
    CASE s = "" -> Finite(0)
      [] s = "300" -> Finite(600)
      [] OTHER -> NaN

\* ToNumber, as applied by isNaN, Math.round and the relational operators
ToNumber(v) ==
    CASE v.t = "undefined" -> NaN
      [] v.t = "null" -> Finite(0)
      [] v.t = "boolean" -> Finite(2 * v.n)
      [] v.t = "number" -> Finite(v.n)
      [] v.t = "string" -> StringToNumber(v.s)
      [] OTHER -> NaN

isNaN(v) == ToNumber(v).nan

\* Math.round(v): nearest integer, ties towards +Infinity; the result in halves
MathRound(v) ==
    LET x == ToNumber(v)
    IN  IF x.nan THEN NaN ELSE Finite(2 * ((x.h + 1) \div 2))

\* x < k, x > k, x >= k, x <= k for an integer literal k; false when x is NaN
LessThan(x, k) == ~x.nan /\ x.h < 2 * k
GreaterThan(x, k) == ~x.nan /\ x.h > 2 * k
AtLeast(x, k) == ~x.nan /\ x.h >= 2 * k
AtMost(x, k) == ~x.nan /\ x.h <= 2 * k

(***************************************************************************)
(* URLs are sequences of characters, so that startsWith is a real prefix   *)
(* test.  A url field is [t, c]: its type tag and its characters (for a    *)
(* non-string, the characters of String(url)).                             *)
(***************************************************************************)
SUPPORTED_URLS == <<
    <<"h","t","t","p","s",":","/","/","i","p","f","s",".","i","o","/","i","p","f","s","/">>,
    <<"h","t","t","p","s",":","/","/","g","a","t","e","w","a","y",".","f","x","h","a","s","h",".","x","y","z","/","i","p","f","s","/">>,
    <<"h","t","t","p","s",":","/","/","g","a","t","e","w","a","y",".","f","x","h","a","s","h","2",".","x","y","z","/","i","p","f","s","/">>,
    <<"h","t","t","p","s",":","/","/","g","a","t","e","w","a","y",".","f","x","h","a","s","h","-","d","e","v",".","x","y","z","/","i","p","f","s","/">>,
    <<"h","t","t","p","s",":","/","/","g","a","t","e","w","a","y",".","f","x","h","a","s","h","-","d","e","v","2",".","x","y","z","/","i","p","f","s","/">> >>

\* String.prototype.startsWith
startsWith(str, prefix) ==
    /\ Len(prefix) <= Len(str)
    /\ SubSeq(str, 1, Len(prefix)) = prefix

\* String.prototype.includes
includesAt(str, sub) ==
    \E i \in 0..(Len(str) - Len(sub)) : SubSeq(str, i + 1, i + Len(sub)) = sub

UrlUndefined == [t |-> "undefined", c |-> <<>>]
UrlNull == [t |-> "null", c |-> <<>>]
UrlNumber == [t |-> "number", c |-> <<"5">>]
UrlStr(chars) == [t |-> "string", c |-> chars]

\* !url is false
UrlTruthy(url) ==
    \/ url.t = "string" /\ url.c # <<>>
    \/ url.t = "number"

\* The result of a call that may throw: a boolean, or the error thrown.
Returns(b) == [threw |-> FALSE, value |-> b, err |-> ""]
Throws(e) == [threw |-> TRUE, value |-> FALSE, err |-> e]

\* isUrlValid with String.prototype.includes where the source has startsWith
isUrlValid_contains(url) ==
    IF url.t # "string"
    THEN Throws("TypeError")
    ELSE Returns(\E i \in 1..Len(SUPPORTED_URLS) : includesAt(url.c, SUPPORTED_URLS[i]))

\* isUrlValid of part_000 and of extract-features: url.startsWith is read on
\* whatever url is, so a url that is no string throws a TypeError.
isUrlValid(url) ==
    IF url.t # "string"
    THEN Throws("TypeError")
    ELSE Returns(\E i \in 1..Len(SUPPORTED_URLS) : startsWith(url.c, SUPPORTED_URLS[i]))

\* The two regular expressions of website-capture, /^https:\/\/ipfs\.io\/ipfs\//
\* and /^https:\/\/gateway\.fxhash\.xyz\/ipfs\//; RegExp.test coerces to a string.
websiteCaptureUrlMatches(url) ==
    \/ startsWith(url.c, SUPPORTED_URLS[1])
    \/ startsWith(url.c, SUPPORTED_URLS[2])

(***************************************************************************)
(* Request validation.  An error thrown inside the handlers is a string:   *)
(* one of the codes, "null" for `throw null`, or the name of a JavaScript  *)
(* error object ("TypeError", "TimeoutError", "Error").  "" is no error.   *)
(***************************************************************************)
ERRORS == {"UNKNOWN", "HTTP_ERROR", "MISSING_PARAMETERS", "INVALID_TRIGGER_PARAMETERS",
           "INVALID_PARAMETERS", "UNSUPPORTED_URL", "CANVAS_CAPTURE_FAILED", "TIMEOUT"}

websiteCaptureERRORS == {"UNKNOWN", "HTTP_ERROR", "MISSING_PARAMETERS", "INVALID_PARAMETERS",
                         "UNSUPPORTED_URL", "CANVAS_CAPTURE_FAILED", "TIMEOUT"}

TRIGGER_MODES == {"DELAY", "FN_TRIGGER"}

DELAY_MIN == 0
DELAY_MAX == 300000

\* isTriggerValid with delay < DELAY_MAX where the source has <=
isTriggerValid_exclusiveMax(triggerMode, delay) ==
    IF ~(triggerMode.t = "string" /\ triggerMode.s \in TRIGGER_MODES)
    THEN FALSE
    ELSE IF StrictEquals(triggerMode, Str("DELAY"))
         THEN /\ ~StrictEquals(Str(typeof(delay)), Undefined)
              /\ ~isNaN(delay)
              /\ AtLeast(ToNumber(delay), DELAY_MIN)
              /\ LessThan(ToNumber(delay), DELAY_MAX)
         ELSE TRUE

\* isTriggerValid(triggerMode, delay).  `typeof delay !== undefined` compares a
\* string with the undefined value, so it is true of every delay.
isTriggerValid(triggerMode, delay) ==
    IF ~(triggerMode.t = "string" /\ triggerMode.s \in TRIGGER_MODES)
    THEN FALSE
    ELSE IF StrictEquals(triggerMode, Str("DELAY"))
         THEN /\ ~StrictEquals(Str(typeof(delay)), Undefined)
              /\ ~isNaN(delay)
              /\ AtLeast(ToNumber(delay), DELAY_MIN)
              /\ AtMost(ToNumber(delay), DELAY_MAX)
         ELSE TRUE

\* `typeof triggerMode === "undefined"` gives the default "DELAY"
effectiveTriggerMode(body) ==
    IF typeof(body.triggerMode) = "undefined" THEN Str("DELAY") ELSE body.triggerMode

\* !["CANVAS", "VIEWPORT", "CUSTOM".includes(mode)]: the operand of ! is an array
\* literal of three elements, and an array is truthy whatever it holds.
modeRejected(mode) ==
    LET list == <<Str("CANVAS"), Str("VIEWPORT"), Bool(mode.t = "string" /\ mode.s \in {"", "CUSTOM"})>>
    IN  ~(Len(list) >= 0)

\* The VIEWPORT branch without the two Math.round assignments
viewportResolution_noRound(resX, resY) ==
    IF ~ToBoolean(resX) \/ ~ToBoolean(resY)
    THEN "MISSING_PARAMETERS"
    ELSE LET x == ToNumber(resX)
             y == ToNumber(resY)
         IN  IF \/ x.nan \/ y.nan
                \/ LessThan(x, 256) \/ GreaterThan(x, 2048)
                \/ LessThan(y, 256) \/ GreaterThan(y, 2048)
             THEN "INVALID_PARAMETERS"
             ELSE ""

\* The mode === "VIEWPORT" branch of the parameter check of part_000
viewportResolution(resX, resY) ==
    IF ~ToBoolean(resX) \/ ~ToBoolean(resY)
    THEN "MISSING_PARAMETERS"
    ELSE LET x == MathRound(resX)
             y == MathRound(resY)
         IN  IF \/ x.nan \/ y.nan
                \/ LessThan(x, 256) \/ GreaterThan(x, 2048)
                \/ LessThan(y, 256) \/ GreaterThan(y, 2048)
             THEN "INVALID_PARAMETERS"
             ELSE ""

\* The synchronous checks of exports.capture (part_000), in source order:
\* the value thrown, or "" when the request passes them all.
captureValidation(body) ==
    IF ~UrlTruthy(body.url) \/ ~ToBoolean(body.mode)
    THEN "MISSING_PARAMETERS"
    ELSE IF isUrlValid(body.url).threw
    THEN isUrlValid(body.url).err
    ELSE IF ~isUrlValid(body.url).value
    THEN "UNSUPPORTED_URL"
    ELSE IF modeRejected(body.mode)
    THEN "MISSING_PARAMETERS"
    ELSE IF ~isTriggerValid(effectiveTriggerMode(body), body.delay)
    THEN "INVALID_TRIGGER_PARAMETERS"
    ELSE IF StrictEquals(body.mode, Str("VIEWPORT"))
    THEN viewportResolution(body.resX, body.resY)
    ELSE IF StrictEquals(body.mode, Str("CANVAS"))
    THEN (IF ~ToBoolean(body.canvasSelector) THEN "INVALID_PARAMETERS" ELSE "")
    ELSE ""

\* The synchronous checks of exports.capture (website-capture/index.js)
websiteCaptureValidation(body) ==
    IF ~UrlTruthy(body.url) \/ ~ToBoolean(body.mode)
    THEN "MISSING_PARAMETERS"
    ELSE IF ~websiteCaptureUrlMatches(body.url)
    THEN "UNSUPPORTED_URL"
    ELSE IF modeRejected(body.mode)
    THEN "MISSING_PARAMETERS"
    ELSE IF StrictEquals(body.mode, Str("VIEWPORT"))
    THEN (IF ~ToBoolean(body.resX) \/ ~ToBoolean(body.resY) \/ typeof(body.delay) = "undefined"
          THEN "MISSING_PARAMETERS"
          ELSE IF viewportResolution(body.resX, body.resY) # ""
          THEN "INVALID_PARAMETERS"
          ELSE IF LessThan(ToNumber(body.delay), 0) \/ GreaterThan(ToNumber(body.delay), 40000)
          THEN "INVALID_PARAMETERS"
          ELSE "")
    ELSE IF StrictEquals(body.mode, Str("CANVAS"))
    THEN (IF \/ ~ToBoolean(body.canvasSelector)
             \/ isNaN(body.delay)
             \/ LessThan(ToNumber(body.delay), 0)
             \/ GreaterThan(ToNumber(body.delay), 40000)
          THEN "INVALID_PARAMETERS"
          ELSE "")
    ELSE ""

\* The check of exports.features
featuresValidation(body) ==
    IF isUrlValid(body.url).threw
    THEN isUrlValid(body.url).err
    ELSE IF ~isUrlValid(body.url).value
    THEN "UNSUPPORTED_URL"
    ELSE ""

(***************************************************************************)
(* Feature extraction: the page global, JSON.stringify in the page,        *)
(* JSON.parse in the handler, processRawTokenFeatures.                     *)
(* A structured value is [t, n, s, entries]; entries (of an "object") is   *)
(* the sequence of [name, value] in for-in order, each value a scalar      *)
(* [t, n, s] whose tag may also be "object" or "array".                    *)
(***************************************************************************)
Obj == [t |-> "object", n |-> 0, s |-> ""]
Arr == [t |-> "array", n |-> 0, s |-> ""]
Fun == [t |-> "function", n |-> 0, s |-> ""]

Top(v, entries) == [t |-> v.t, n |-> v.n, s |-> v.s, entries |-> entries]

\* JSON.stringify(value): undefined for undefined and for a function; in an
\* object, the properties whose value is undefined or a function are left out.
\* The text is held as [json |-> the value it denotes].
jsonStringify(g) ==
    IF g.t \in {"undefined", "function"}
    THEN [defined |-> FALSE, text |-> [json |-> Top(Undefined, <<>>)]]
    ELSE [defined |-> TRUE,
          text |-> [json |-> [g EXCEPT !.entries =
                      SelectSeq(g.entries, LAMBDA e : e.value.t \notin {"undefined", "function"})]]]

\* JSON.parse(text) of a text JSON.stringify produced
jsonParse(text) == text.json

\* sleep(10000, null) resolves with null
SleepNull == [defined |-> FALSE, text |-> [json |-> Top(Null, <<>>)]]

\* rawFeatures = (extractedFeatures && JSON.parse(extractedFeatures)) || null,
\* extractedFeatures being the value the race settled with
rawFeaturesOf(extractedFeatures) ==
    IF ~extractedFeatures.defined
    THEN Top(Null, <<>>)
    ELSE LET parsed == jsonParse(extractedFeatures.text)
         IN  IF parsed.t \in {"object", "array"} \/ ToBoolean(parsed)
             THEN parsed
             ELSE Top(Null, <<>>)

\* The type test with a truthiness test added
isPrimitive_truthyOnly(v) ==
    /\ typeof(v) \in {"boolean", "string", "number"}
    /\ ToBoolean(v)

\* typeof v === "boolean" || typeof v === "string" || typeof v === "number"
isPrimitive(v) ==
    typeof(v) \in {"boolean", "string", "number"}

\* The for-in loop of processRawTokenFeatures, from entry i on
RECURSIVE pushFeatures(_, _, _)
pushFeatures(entries, i, features) ==
    IF i > Len(entries)
    THEN features
    ELSE IF ~isPrimitive(entries[i].value)
         THEN pushFeatures(entries, i + 1, features)
         ELSE pushFeatures(entries, i + 1,
                           Append(features, [name |-> entries[i].name, value |-> entries[i].value]))

\* processRawTokenFeatures(rawFeatures): throws null unless rawFeatures is a
\* non-null, non-array object
processRawTokenFeatures(rawFeatures) ==
    IF typeof(rawFeatures) # "object" \/ rawFeatures.t = "array" \/ rawFeatures.t = "null"
    THEN [threw |-> TRUE, features |-> <<>>]
    ELSE [threw |-> FALSE, features |-> pushFeatures(rawFeatures.entries, 1, <<>>)]

(***************************************************************************)
(* Bounds and input sets                                                   *)
(***************************************************************************)
\* longest tail appended to a gateway prefix
MaxSuffix == 1
\* most properties of a raw feature bag
MaxBagLen == 3

Suffixes == UNION {[1..k -> {"Q"}] : k \in 0..MaxSuffix}

GoodUrls == {UrlStr(SUPPORTED_URLS[i] \o sfx) : i \in 1..Len(SUPPORTED_URLS), sfx \in Suffixes}

BadUrls ==
    {UrlStr(SubSeq(SUPPORTED_URLS[i], 1, Len(SUPPORTED_URLS[i]) - 1)) : i \in 1..Len(SUPPORTED_URLS)}
    \cup {UrlStr(<<"x">> \o SUPPORTED_URLS[i] \o sfx) : i \in {1, 2}, sfx \in Suffixes}
    \cup {UrlStr(<<"h","t","t","p",":","/","/","i","p","f","s",".","i","o","/","i","p","f","s","/","Q">>),
          UrlStr(<<"H","T","T","P","S",":","/","/","I","P","F","S",".","I","O","/","I","P","F","S","/","Q">>),
          UrlStr(<<"h","t","t","p","s",":","/","/","g","a","t","e","w","a","y",".","f","x","h","a","s","h","3",".","x","y","z","/","i","p","f","s","/","Q">>),
          UrlStr(<<>>), UrlUndefined, UrlNull, UrlNumber}

Urls == GoodUrls \cup BadUrls

Modes == {Undefined, Str(""), Str("VIEWPORT"), Str("CANVAS"), Str("CUSTOM"), Str("FOO")}
TriggerModes == {Undefined, Null, Str("DELAY"), Str("FN_TRIGGER"), Str("OTHER")}
Delays == {Undefined, Null, Bool(TRUE), Str(""), Str("abc"), Str("300"),
           Int2(-1), Num(-1), Int2(0), Int2(1), Int2(300000), Num(600001), Int2(300001)}
Resolutions == {Undefined, Null, Str("abc"), Str("300"), Int2(0), Num(1),
                Int2(255), Num(511), Int2(256), Int2(2048), Num(4097), Int2(2049)}
Selectors == {Undefined, Str(""), Str("#c")}

Body(url, mode, triggerMode, delay, resX, resY, canvasSelector) ==
    [url |-> url, mode |-> mode, triggerMode |-> triggerMode, delay |-> delay,
     resX |-> resX, resY |-> resY, canvasSelector |-> canvasSelector]

OneGoodUrl == UrlStr(SUPPORTED_URLS[1] \o <<"Q">>)
OneBadUrl == UrlStr(<<"x">> \o SUPPORTED_URLS[1])

\* Every combination of kept / broken rule, on few values per field
ProductBodies ==
    {Body(u, m, t, d, x, y, c) :
        u \in {OneGoodUrl, OneBadUrl, UrlUndefined}, m \in Modes, t \in TriggerModes,
        d \in {Undefined, Int2(0), Int2(300001)},
        x \in {Undefined, Int2(256), Int2(2049)}, y \in {Undefined, Int2(256), Int2(2049)},
        c \in {Undefined, Str("#c")}}

\* Every url, the other fields passing
UrlBodies ==
    {Body(u, m, Undefined, Int2(0), Int2(256), Int2(256), Str("#c")) :
        u \in Urls, m \in {Undefined, Str("VIEWPORT")}}

\* Every trigger mode with every delay, the other fields passing
DelayBodies ==
    {Body(OneGoodUrl, m, t, d, Int2(256), Int2(2048), Str("#c")) :
        m \in {Str("VIEWPORT"), Str("CANVAS")}, t \in TriggerModes, d \in Delays}

\* Every pair of resolutions and every selector, the other fields passing
ResolutionBodies ==
    {Body(OneGoodUrl, Str("VIEWPORT"), Undefined, Int2(0), x, y, Undefined) :
        x \in Resolutions, y \in Resolutions}
    \cup {Body(OneGoodUrl, Str("CANVAS"), Undefined, Int2(0), Undefined, Undefined, c) :
        c \in Selectors}

CaptureBodies == ProductBodies \cup UrlBodies \cup DelayBodies \cup ResolutionBodies

FeaturesBodies ==
    {Body(u, Undefined, Undefined, Undefined, Undefined, Undefined, Undefined) : u \in Urls}

Handlers == {"capture", "websiteCapture", "features"}

Requests(h) ==
    LET bodies == IF h = "features" THEN FeaturesBodies ELSE CaptureBodies
    IN  {[method |-> "POST", body |-> b] : b \in bodies}
        \cup {[method |-> "OPTIONS", body |-> b] : b \in UrlBodies \cup FeaturesBodies}

\* 10*1024*1024, the size above which the capture is re-encoded
TEN_MIB == 10 * 1024 * 1024
ByteLengths == {TEN_MIB - 1, TEN_MIB, TEN_MIB + 1}

\* The values the page may hold in window.$fxhashFeatures
PropertyNames == <<"size", "count", "rare", "nested">>
PropertyValues == {Bool(TRUE), Bool(FALSE), Int2(0), Int2(3), Str(""), Str("large"),
                   Obj, Arr, Null, Undefined}
Bags ==
    UNION {{b \in [1..k -> [name : {PropertyNames[i] : i \in 1..MaxBagLen}, value : PropertyValues]] :
                \A i, j \in 1..k : i # j => b[i].name # b[j].name} : k \in 0..MaxBagLen}

PageGlobals ==
    {Top(v, <<>>) : v \in {Undefined, Null, Fun, Arr, Int2(0), Int2(3), Str(""), Str("x"), Bool(FALSE), Bool(TRUE)}}
    \cup {Top(Obj, b) : b \in
            {<<>>,
             <<[name |-> "size", value |-> Str("large")], [name |-> "nested", value |-> Obj]>>,
             <<[name |-> "count", value |-> Int2(0)], [name |-> "rare", value |-> Undefined]>>,
             <<[name |-> "size", value |-> Str("large")], [name |-> "count", value |-> Int2(3)],
               [name |-> "rare", value |-> Bool(TRUE)], [name |-> "nested", value |-> Obj]>>}}

(***************************************************************************)
(* The state of one invocation                                             *)
(***************************************************************************)
VARIABLES
    handler,      \* which exported function runs
    req,          \* [method, body]
    pc,           \* the handler's position
    browser,      \* the local `browser`: "null" or "browser"
    response,     \* the status of the response page.goto resolved with; 0: none
    rawFeatures,  \* the local `rawFeatures`
    result,       \* the local `result`
    error,        \* the value thrown into the outer catch
    completion,   \* how the try / catch block was left: "normal", "return", "throw"
    thrown,       \* the value that left the handler (its promise rejected with it)
    sent,         \* the responses sent, in order
    events,       \* history: every awaited operation with its outcome, close, send
    evalP,        \* the page.evaluate promise of the race
    timerP,       \* the sleep promise
    race          \* the Promise.race promise

vars == <<handler, req, pc, browser, response, rawFeatures, result, error, completion,
          thrown, sent, events, evalP, timerP, race>>

NullResult == [kind |-> "null", byteLength |-> 0, features |-> <<>>]
Image(n) == [kind |-> "image", byteLength |-> n, features |-> <<>>]
Compressed == [kind |-> "compressed", byteLength |-> 1024, features |-> <<>>]
Features(list) == [kind |-> "features", byteLength |-> 0, features |-> list]

Event(op, outcome) == [op |-> op, outcome |-> outcome]
Count(op, outcome) == Cardinality({i \in 1..Len(events) : events[i] = Event(op, outcome)})
Launches == Count("launch", "ok")
Closes == Count("close", "called")

body == req.body

Init ==
    /\ handler \in Handlers
    /\ req \in Requests(handler)
    /\ pc = "start"
    /\ browser = "null"
    /\ response = 0
    /\ rawFeatures = Top(Null, <<>>)
    /\ result = NullResult
    /\ error = ""
    /\ completion = ""
    /\ thrown = ""
    /\ sent = <<>>
    /\ events = <<>>
    /\ evalP = "none"
    /\ timerP = "none"
    /\ race = "none"

\* res.status(status).send(...), after res.set("Content-Type", type) if any
Send(status, type, text, data) ==
    /\ sent' = Append(sent, [status |-> status, type |-> type, text |-> text, data |-> data])
    /\ events' = Append(events, Event("send", text))

\* An awaited operation that either resolves or rejects with an Error
Await(at, op, next) ==
    /\ pc = at
    /\ \E ok \in BOOLEAN :
        IF ok
        THEN /\ pc' = next
             /\ events' = Append(events, Event(op, "ok"))
             /\ UNCHANGED error
        ELSE /\ pc' = "catch"
             /\ error' = "Error"
             /\ events' = Append(events, Event(op, "Error"))

\* The entry of a handler without the OPTIONS branch
Start_noPreflight ==
    /\ pc = "start"
    /\ pc' = "validate"
    /\ UNCHANGED <<handler, req, browser, response, rawFeatures, result, error, completion,
                   thrown, sent, events, evalP, timerP, race>>

\* The CORS headers and the answer to the preflight request
Start ==
    /\ pc = "start"
    /\ IF req.method = "OPTIONS"
       THEN /\ Send(204, "", "", NullResult)
            /\ completion' = "return"
            /\ pc' = "finally"
       ELSE /\ pc' = "validate"
            /\ UNCHANGED <<sent, events, completion>>
    /\ UNCHANGED <<handler, req, browser, response, rawFeatures, result, error, thrown,
                   evalP, timerP, race>>

validation ==
    CASE handler = "capture" -> captureValidation(body)
      [] handler = "websiteCapture" -> websiteCaptureValidation(body)
      [] OTHER -> featuresValidation(body)

\* The checks before the first await
Validate ==
    /\ pc = "validate"
    /\ IF validation = ""
       THEN /\ pc' = (IF handler = "features" THEN "launch" ELSE "font")
            /\ UNCHANGED error
       ELSE /\ pc' = "catch"
            /\ error' = validation
    /\ UNCHANGED <<handler, req, browser, response, rawFeatures, result, completion, thrown,
                   sent, events, evalP, timerP, race>>

\* await chromium.font(...)
Font ==
    /\ Await("font", "font", "launch")
    /\ UNCHANGED <<handler, req, browser, response, rawFeatures, result, completion, thrown,
                   sent, evalP, timerP, race>>

\* browser = await chromium.puppeteer.launch(...)
Launch ==
    /\ Await("launch", "launch", "newPage")
    /\ browser' = (IF pc' = "newPage" THEN "browser" ELSE browser)
    /\ UNCHANGED <<handler, req, response, rawFeatures, result, completion, thrown,
                   sent, evalP, timerP, race>>

\* let page = await browser.newPage()
NewPage ==
    /\ Await("newPage", "newPage", "setViewport")
    /\ UNCHANGED <<handler, req, browser, response, rawFeatures, result, completion, thrown,
                   sent, evalP, timerP, race>>

\* await page.setViewport(...)
SetViewport ==
    /\ Await("setViewport", "setViewport", "goto")
    /\ UNCHANGED <<handler, req, browser, response, rawFeatures, result, completion, thrown,
                   sent, evalP, timerP, race>>

isCapture == handler \in {"capture", "websiteCapture"}

\* What page.goto may do: resolve with a response of some status, resolve with
\* no response, reject with a TimeoutError, reject with another error.
GotoOutcomes == {"200", "404", "null", "TimeoutError", "Error"}

\* Variant of Goto whose inner catch throws null for every error
Goto_noTimeoutCode ==
    /\ pc = "goto"
    /\ \E o \in GotoOutcomes :
        /\ events' = Append(events, Event("goto", o))
        /\ IF o \in {"TimeoutError", "Error"}
           THEN /\ pc' = "catch"
                /\ error' = (IF ~isCapture THEN o ELSE "null")
                /\ UNCHANGED response
           ELSE /\ pc' = (IF isCapture THEN "status" ELSE "waitForSelector")
                /\ response' = (CASE o = "200" -> 200 [] o = "404" -> 404 [] OTHER -> 0)
                /\ UNCHANGED error
    /\ UNCHANGED <<handler, req, browser, rawFeatures, result, completion, thrown,
                   sent, evalP, timerP, race>>

\* response = await page.goto(url, ...) with, in the capture handlers, the inner
\* catch that turns a TimeoutError into "TIMEOUT" and anything else into null
Goto ==
    /\ pc = "goto"
    /\ \E o \in GotoOutcomes :
        /\ events' = Append(events, Event("goto", o))
        /\ IF o \in {"TimeoutError", "Error"}
           THEN /\ pc' = "catch"
                /\ error' = (IF ~isCapture THEN o
                             ELSE IF o = "TimeoutError" THEN "TIMEOUT" ELSE "null")
                /\ UNCHANGED response
           ELSE /\ pc' = (IF isCapture THEN "status" ELSE "waitForSelector")
                /\ response' = (CASE o = "200" -> 200 [] o = "404" -> 404 [] OTHER -> 0)
                /\ UNCHANGED error
    /\ UNCHANGED <<handler, req, browser, rawFeatures, result, completion, thrown,
                   sent, evalP, timerP, race>>

\* if (response.status() !== 200) throw "HTTP_ERROR", then the branch on mode
Status ==
    /\ pc = "status"
    /\ IF response = 0
       THEN pc' = "catch" /\ error' = "TypeError" /\ UNCHANGED completion
       ELSE IF response # 200
       THEN pc' = "catch" /\ error' = "HTTP_ERROR" /\ UNCHANGED completion
       ELSE IF StrictEquals(body.mode, Str("VIEWPORT")) \/ StrictEquals(body.mode, Str("CANVAS"))
       THEN pc' = "wait" /\ UNCHANGED <<error, completion>>
       ELSE pc' = "finally" /\ completion' = "normal" /\ UNCHANGED error
    /\ UNCHANGED <<handler, req, browser, response, rawFeatures, result, thrown,
                   sent, events, evalP, timerP, race>>

\* waitPreview(triggerMode, page, delay) up to its first suspension; in
\* website-capture, sleep(delay)
Wait ==
    /\ pc = "wait"
    /\ pc' = "waiting"
    /\ IF handler = "capture" /\ StrictEquals(effectiveTriggerMode(body), Str("FN_TRIGGER"))
       THEN evalP' = "pending" /\ timerP' = "pending" /\ race' = "pending"
       ELSE IF handler = "websiteCapture" \/ StrictEquals(effectiveTriggerMode(body), Str("DELAY"))
       THEN timerP' = "pending" /\ UNCHANGED <<evalP, race>>
       ELSE UNCHANGED <<evalP, timerP, race>>
    /\ UNCHANGED <<handler, req, browser, response, rawFeatures, result, error, completion,
                   thrown, sent, events>>

\* sleep(delay) is over: waitPreview resolves
SleepDone ==
    /\ pc = "waiting"
    /\ race = "none"
    /\ timerP = "pending"
    /\ timerP' = "fired"
    /\ pc' = "extract"
    /\ events' = Append(events, Event("sleep", "fired"))
    /\ UNCHANGED <<handler, req, browser, response, rawFeatures, result, error, completion,
                   thrown, sent, evalP, race>>

\* The fxhash-preview event fires first: page.evaluate resolves, the race
\* resolves, waitPreview resolves
EventWins ==
    /\ pc = "waiting"
    /\ race = "pending"
    /\ evalP = "pending"
    /\ evalP' = "resolved"
    /\ race' = "resolved"
    /\ pc' = "extract"
    /\ events' = Append(events, Event("evaluate", "ok"))
    /\ UNCHANGED <<handler, req, browser, response, rawFeatures, result, error, completion,
                   thrown, sent, timerP>>

\* The ceiling (sleep(DELAY_MAX), sleep(10000, null)) fires first
CeilingWins ==
    /\ pc \in {"waiting", "reading"}
    /\ race = "pending"
    /\ timerP = "pending"
    /\ timerP' = "fired"
    /\ race' = "resolved"
    /\ events' = Append(events, Event("sleep", "fired"))
    /\ IF pc = "waiting"
       THEN pc' = "extract" /\ UNCHANGED rawFeatures
       ELSE pc' = "process" /\ rawFeatures' = rawFeaturesOf(SleepNull)
    /\ UNCHANGED <<handler, req, browser, response, result, error, completion,
                   thrown, sent, evalP>>

\* page.evaluate rejects first.  In waitPreview the race rejects, .then(resolve)
\* never calls resolve, and the awaited promise stays pending for ever; in
\* features the inner catch throws "PAGE_EVALUATE_FAILED".
EvaluateRejects ==
    /\ pc \in {"waiting", "reading"}
    /\ race = "pending"
    /\ evalP = "pending"
    /\ evalP' = "rejected"
    /\ race' = "rejected"
    /\ events' = Append(events, Event("evaluate", "Error"))
    /\ IF pc = "waiting"
       THEN pc' = "hung" /\ UNCHANGED error
       ELSE pc' = "catch" /\ error' = "PAGE_EVALUATE_FAILED"
    /\ UNCHANGED <<handler, req, browser, response, rawFeatures, result, completion,
                   thrown, sent, timerP>>

\* The abandoned side of a settled race completes: nothing awaits it
LateTimer ==
    /\ timerP = "pending"
    /\ race \in {"resolved", "rejected"}
    /\ timerP' = "fired"
    /\ UNCHANGED <<handler, req, pc, browser, response, rawFeatures, result, error,
                   completion, thrown, sent, events, evalP, race>>

\* Variant of LateEvaluate in which the late rejection of the abandoned
\* page.evaluate is raised in the handler
LateEvaluate_raises ==
    /\ evalP = "pending"
    /\ race \in {"resolved", "rejected"}
    /\ evalP' \in {"resolved", "rejected"}
    /\ IF evalP' = "rejected" /\ pc \notin {"finally", "done"}
       THEN pc' = "catch" /\ error' = "Error"
       ELSE UNCHANGED <<pc, error>>
    /\ UNCHANGED <<handler, req, browser, response, rawFeatures, result,
                   completion, thrown, sent, events, timerP, race>>

\* page.evaluate settles after the race is settled: nothing awaits it
LateEvaluate ==
    /\ evalP = "pending"
    /\ race \in {"resolved", "rejected"}
    /\ evalP' \in {"resolved", "rejected"}
    /\ UNCHANGED <<handler, req, pc, browser, response, rawFeatures, result, error,
                   completion, thrown, sent, events, timerP, race>>

\* What the extraction may do: the screenshot (VIEWPORT) or the data URL read
\* (CANVAS) rejects, the selector matches no element so that $eval rejects, the
\* $eval callback returns null for an element that is not a canvas, or bytes
\* of some length come back.
ExtractOutcomes == {"Error", "noElement", "notCanvas"} \cup {"bytes"}

\* Variant of Extract without the inner try/catch of the CANVAS branch: the
\* failure reaches the outer catch as it was raised.
Extract_noInnerCatch ==
    /\ pc = "extract"
    /\ \E o \in ExtractOutcomes, n \in ByteLengths :
        LET canvas == StrictEquals(body.mode, Str("CANVAS"))
        IN  /\ o \in {"noElement", "notCanvas"} => canvas
            /\ o # "bytes" => n = TEN_MIB
            /\ events' = Append(events, Event(IF canvas THEN "$eval" ELSE "screenshot", o))
            /\ IF o = "bytes"
               THEN /\ result' = Image(n)
                    /\ pc' = "finally"
                    /\ completion' = "normal"
                    /\ UNCHANGED error
               ELSE /\ pc' = "catch"
                    /\ error' = o
                    /\ UNCHANGED <<result, completion>>
    /\ UNCHANGED <<handler, req, browser, response, rawFeatures, thrown,
                   sent, evalP, timerP, race>>

\* page.screenshot(), or page.$eval(canvasSelector, ...) and the decoding, the
\* latter inside the inner try whose catch throws "CANVAS_CAPTURE_FAILED"
Extract ==
    /\ pc = "extract"
    /\ \E o \in ExtractOutcomes, n \in ByteLengths :
        LET canvas == StrictEquals(body.mode, Str("CANVAS"))
        IN  /\ o \in {"noElement", "notCanvas"} => canvas
            /\ o # "bytes" => n = TEN_MIB
            /\ events' = Append(events, Event(IF canvas THEN "$eval" ELSE "screenshot", o))
            /\ IF o = "bytes"
               THEN /\ result' = Image(n)
                    /\ pc' = "finally"
                    /\ completion' = "normal"
                    /\ UNCHANGED error
               ELSE /\ pc' = "catch"
                    /\ error' = (IF canvas THEN "CANVAS_CAPTURE_FAILED" ELSE o)
                    /\ UNCHANGED <<result, completion>>
    /\ UNCHANGED <<handler, req, browser, response, rawFeatures, thrown,
                   sent, evalP, timerP, race>>

\* await page.waitForSelector("body", ...) in a try whose catch is empty
WaitForSelector ==
    /\ pc = "waitForSelector"
    /\ \E o \in {"ok", "TimeoutError"} : events' = Append(events, Event("waitForSelector", o))
    /\ pc' = "read"
    /\ UNCHANGED <<handler, req, browser, response, rawFeatures, result, error, completion,
                   thrown, sent, evalP, timerP, race>>

\* Promise.race([page.evaluate(...), sleep(10000, null)]) is awaited
Read ==
    /\ pc = "read"
    /\ pc' = "reading"
    /\ evalP' = "pending"
    /\ timerP' = "pending"
    /\ race' = "pending"
    /\ UNCHANGED <<handler, req, browser, response, rawFeatures, result, error, completion,
                   thrown, sent, events>>

\* page.evaluate(() => JSON.stringify(window.$fxhashFeatures)) resolves first
ReadWins ==
    /\ pc = "reading"
    /\ race = "pending"
    /\ evalP = "pending"
    /\ \E g \in PageGlobals :
        /\ rawFeatures' = rawFeaturesOf(jsonStringify(g))
        /\ events' = Append(events, Event("evaluate", g.t))
    /\ evalP' = "resolved"
    /\ race' = "resolved"
    /\ pc' = "process"
    /\ UNCHANGED <<handler, req, browser, response, result, error, completion,
                   thrown, sent, timerP>>

\* The call of processRawTokenFeatures without the try around it
Process_noCatch ==
    /\ pc = "process"
    /\ LET processed == processRawTokenFeatures(rawFeatures)
       IN  IF processed.threw
           THEN pc' = "catch" /\ error' = "null" /\ UNCHANGED <<result, completion>>
           ELSE /\ result' = Features(processed.features)
                /\ pc' = "finally"
                /\ completion' = "normal"
                /\ UNCHANGED error
    /\ UNCHANGED <<handler, req, browser, response, rawFeatures, thrown,
                   sent, events, evalP, timerP, race>>

\* result = processRawTokenFeatures(rawFeatures) in a try whose catch is empty
Process ==
    /\ pc = "process"
    /\ LET processed == processRawTokenFeatures(rawFeatures)
       IN  result' = (IF processed.threw THEN result ELSE Features(processed.features))
    /\ pc' = "finally"
    /\ completion' = "normal"
    /\ UNCHANGED <<handler, req, browser, response, rawFeatures, error, thrown,
                   sent, events, evalP, timerP, race>>

\* ERRORS.includes(error) ? error : "UNKNOWN"
errorBody(e) ==
    IF e \in (IF handler = "capture" THEN ERRORS ELSE websiteCaptureERRORS) THEN e ELSE "UNKNOWN"

\* Variant of Catch in which features answers 400 with the error and returns
Catch_respond400 ==
    /\ pc = "catch"
    /\ pc' = "finally"
    /\ IF isCapture
       THEN /\ Send(500, "", errorBody(error), NullResult)
            /\ completion' = "return"
       ELSE /\ Send(400, "application/json", error, NullResult)
            /\ completion' = "return"
    /\ UNCHANGED <<handler, req, browser, response, rawFeatures, result, error, thrown,
                   evalP, timerP, race>>

\* The outer catch: capture answers 500 and returns; features throws the error on
Catch ==
    /\ pc = "catch"
    /\ pc' = "finally"
    /\ IF isCapture
       THEN /\ Send(500, "", errorBody(error), NullResult)
            /\ completion' = "return"
       ELSE /\ completion' = "throw"
            /\ UNCHANGED <<sent, events>>
    /\ UNCHANGED <<handler, req, browser, response, rawFeatures, result, error, thrown,
                   evalP, timerP, race>>

\* A finally block that does not close
closeBrowser_never ==
    UNCHANGED events

\* if (browser !== null) { browser.close() }
closeBrowser ==
    IF browser # "null"
    THEN events' = Append(events, Event("close", "called"))
    ELSE UNCHANGED events

\* Variant of Finally after which a pending return is lost: the statements
\* after the try statement run
Finally_fallsThrough ==
    /\ pc = "finally"
    /\ closeBrowser
    /\ IF completion = "return"
       THEN pc' = "post" /\ UNCHANGED thrown
       ELSE IF completion = "throw"
       THEN pc' = "done" /\ thrown' = error
       ELSE pc' = "post" /\ UNCHANGED thrown
    /\ UNCHANGED <<handler, req, browser, response, rawFeatures, result, error, completion,
                   sent, evalP, timerP, race>>

\* The finally block, and what follows it: the pending return or throw of the
\* try / catch, or the statements after the try statement
Finally ==
    /\ pc = "finally"
    /\ closeBrowser
    /\ IF completion = "return"
       THEN pc' = "done" /\ UNCHANGED thrown
       ELSE IF completion = "throw"
       THEN pc' = "done" /\ thrown' = error
       ELSE pc' = "post" /\ UNCHANGED thrown
    /\ UNCHANGED <<handler, req, browser, response, rawFeatures, result, error, completion,
                   sent, evalP, timerP, race>>

\* Variant of Post that re-encodes from 10 MiB on, the bound included
Post_atLeast ==
    /\ pc = "post"
    /\ IF ~isCapture
       THEN /\ Send(200, "application/json", "",
                    IF result.kind = "null" THEN Features(<<>>) ELSE result)
            /\ pc' = "done"
            /\ UNCHANGED thrown
       ELSE IF result.kind = "null"
       THEN /\ thrown' = "TypeError"
            /\ pc' = "done"
            /\ UNCHANGED <<sent, events>>
       ELSE IF result.byteLength >= TEN_MIB
       THEN /\ pc' = "sharp"
            /\ UNCHANGED <<thrown, sent, events>>
       ELSE /\ Send(200, "image/png", "", result)
            /\ pc' = "done"
            /\ UNCHANGED thrown
    /\ UNCHANGED <<handler, req, browser, response, rawFeatures, result, error, completion,
                   evalP, timerP, race>>

\* After the try statement.  capture: result.byteLength throws on the null
\* result; above 10 MiB the image goes to sharp; otherwise it is sent as it is.
\* features: result || [] is sent.
Post ==
    /\ pc = "post"
    /\ IF ~isCapture
       THEN /\ Send(200, "application/json", "",
                    IF result.kind = "null" THEN Features(<<>>) ELSE result)
            /\ pc' = "done"
            /\ UNCHANGED thrown
       ELSE IF result.kind = "null"
       THEN /\ thrown' = "TypeError"
            /\ pc' = "done"
            /\ UNCHANGED <<sent, events>>
       ELSE IF result.byteLength > TEN_MIB
       THEN /\ pc' = "sharp"
            /\ UNCHANGED <<thrown, sent, events>>
       ELSE /\ Send(200, "image/png", "", result)
            /\ pc' = "done"
            /\ UNCHANGED thrown
    /\ UNCHANGED <<handler, req, browser, response, rawFeatures, result, error, completion,
                   evalP, timerP, race>>

\* await sharp(result).resize(...).jpeg(...).toBuffer(), then the jpeg is sent
Sharp ==
    /\ pc = "sharp"
    /\ pc' = "done"
    /\ \E ok \in BOOLEAN :
        IF ok
        THEN Send(200, "image/jpeg", "", Compressed) /\ UNCHANGED thrown
        ELSE /\ thrown' = "Error"
             /\ events' = Append(events, Event("sharp", "Error"))
             /\ UNCHANGED sent
    /\ UNCHANGED <<handler, req, browser, response, rawFeatures, result, error, completion,
                   evalP, timerP, race>>

Next ==
    \/ Start
    \/ Validate
    \/ Font
    \/ Launch
    \/ NewPage
    \/ SetViewport
    \/ Goto
    \/ Status
    \/ Wait
    \/ SleepDone
    \/ EventWins
    \/ CeilingWins
    \/ EvaluateRejects
    \/ LateTimer
    \/ LateEvaluate
    \/ Extract
    \/ WaitForSelector
    \/ Read
    \/ ReadWins
    \/ Process
    \/ Catch
    \/ Finally
    \/ Post
    \/ Sharp

Spec == Init /\ [][Next]_vars

(***************************************************************************)
(* processRawTokenFeatures called on its own, on every bag of at most      *)
(* MaxBagLen properties and on the values that are no bag                  *)
(***************************************************************************)
InitProcess ==
    /\ handler = "processRawTokenFeatures"
    /\ req = [method |-> "", body |-> Body(UrlUndefined, Undefined, Undefined, Undefined,
                                            Undefined, Undefined, Undefined)]
    /\ pc = "call"
    /\ browser = "null"
    /\ response = 0
    /\ rawFeatures \in {Top(Obj, b) : b \in Bags}
                       \cup {Top(v, <<>>) : v \in {Null, Arr, Undefined, Int2(3), Str("x"), Bool(TRUE)}}
    /\ result = NullResult
    /\ error = ""
    /\ completion = ""
    /\ thrown = ""
    /\ sent = <<>>
    /\ events = <<>>
    /\ evalP = "none"
    /\ timerP = "none"
    /\ race = "none"

CallProcess ==
    /\ pc = "call"
    /\ pc' = "returned"
    /\ LET processed == processRawTokenFeatures(rawFeatures)
       IN  IF processed.threw
           THEN thrown' = "null" /\ UNCHANGED result
           ELSE result' = Features(processed.features) /\ UNCHANGED thrown
    /\ UNCHANGED <<handler, req, browser, response, rawFeatures, error, completion,
                   sent, events, evalP, timerP, race>>

NextProcess == CallProcess

SpecProcess == InitProcess /\ [][NextProcess]_vars

(***************************************************************************)
(* Vocabulary of the properties                                            *)
(***************************************************************************)
IsPost == req.method # "OPTIONS"

\* url starts with one of the five gateway prefixes
UrlAllowListed ==
    /\ body.url.t = "string"
    /\ \E i \in 1..Len(SUPPORTED_URLS) :
        /\ Len(body.url.c) >= Len(SUPPORTED_URLS[i])
        /\ \A k \in 1..Len(SUPPORTED_URLS[i]) : body.url.c[k] = SUPPORTED_URLS[i][k]

\* url passes the url rule of the handler that runs
UrlAccepted ==
    /\ UrlAllowListed
    /\ handler = "websiteCapture" =>
        \E i \in {1, 2} :
            /\ Len(body.url.c) >= Len(SUPPORTED_URLS[i])
            /\ \A k \in 1..Len(SUPPORTED_URLS[i]) : body.url.c[k] = SUPPORTED_URLS[i][k]

ErrorResponse(code) == [status |-> 500, type |-> "", text |-> code, data |-> NullResult]

\* The invocation is over and the request was rejected with `code`: capture
\* answered 500 with it, features let it leave the handler
RejectedWith(code) ==
    IF isCapture
    THEN sent = <<ErrorResponse(code)>> /\ thrown = ""
    ELSE sent = <<>> /\ thrown = code

Happened(op, outcome) == \E i \in 1..Len(events) : events[i] = Event(op, outcome)
Did(op) == \E i \in 1..Len(events) : events[i].op = op

\* The synchronous checks are behind, and how they ended
PastValidation == pc \notin {"start", "validate"}
ValidationPassed ==
    /\ PastValidation
    /\ IsPost
    /\ \/ pc \in {"font", "launch"} /\ events = <<>>
       \/ events # <<>> /\ events[1].op \in {"font", "launch"}
ValidationThrew(code) ==
    /\ PastValidation
    /\ IsPost
    /\ ~ValidationPassed
    /\ error = code

C3_CloseBeforeErrorResponse ==
    \A i \in 1..Len(events) :
        (isCapture /\ Launches = 1 /\ events[i].op = "send" /\ sent[1].status = 500) =>
            \E j \in 1..(i - 1) : events[j] = Event("close", "called")

\* C4 as stated: every non-OPTIONS invocation of capture that ends has sent
\* exactly one response, 200 with the image or 500 with one of the eight codes,
\* and nothing has left the handler, whatever mode is and whatever the browser
\* operations did (a failure of the re-encoding aside).
C4_OneControlledResponse ==
    (pc = "done" /\ handler = "capture" /\ IsPost /\ ~Happened("sharp", "Error")) =>
        /\ thrown = ""
        /\ Len(sent) = 1
        /\ \/ sent[1].status = 200 /\ sent[1].data.kind \in {"image", "compressed"}
           \/ sent[1].status = 500 /\ sent[1].text \in ERRORS

\* C5 as stated: a capture request whose url is present and accepted and whose
\* mode is present but neither VIEWPORT nor CANVAS is rejected with
\* MISSING_PARAMETERS, and no browser is launched.
C5_UnsupportedModeRejected ==
    (isCapture /\ IsPost /\ UrlAccepted /\ ToBoolean(body.mode)
        /\ body.mode \notin {Str("VIEWPORT"), Str("CANVAS")}) =>
        /\ Launches = 0
        /\ pc = "done" => RejectedWith("MISSING_PARAMETERS")

\* The request reached the VIEWPORT resolution rule of capture (part_000)
C6_Applies ==
    /\ handler = "capture"
    /\ IsPost
    /\ PastValidation
    /\ UrlAllowListed
    /\ body.mode = Str("VIEWPORT")
    /\ isTriggerValid(effectiveTriggerMode(body), body.delay)

Present(v) == v.t # "undefined"
RoundsInto(v, lo, hi) ==
    LET r == MathRound(v) IN ~r.nan /\ r.h >= 2 * lo /\ r.h <= 2 * hi

C7_Applies ==
    /\ handler = "capture"
    /\ IsPost
    /\ PastValidation
    /\ UrlAllowListed
    /\ ToBoolean(body.mode)

C7_PassesTriggerRule ==
    \/ ValidationPassed
    \/ ValidationThrew("MISSING_PARAMETERS")
    \/ ValidationThrew("INVALID_PARAMETERS")

C7_TriggerMode == IF Present(body.triggerMode) THEN body.triggerMode ELSE Str("DELAY")

C8_Preflight ==
    ~IsPost =>
        /\ Launches = 0
        /\ Closes = 0
        /\ browser = "null"
        /\ thrown = ""
        /\ pc \in {"start", "finally", "done"}
        /\ sent = (IF pc = "start"
                   THEN <<>>
                   ELSE <<[status |-> 204, type |-> "", text |-> "", data |-> NullResult]>>)

C8_Witness ==
    /\ ~IsPost
    /\ pc = "done"
    /\ handler = "features"
    /\ body.url = UrlUndefined
    /\ Len(sent) = 1
    /\ sent[1].status = 204

\* C9: called on a non-null, non-array object, processRawTokenFeatures returns
\* the {name, value} of exactly the properties whose value is a boolean, a string
\* or a number, in the order of the object, names and values unchanged: the k-th
\* kept property is the k-th element of the result and there is no other.
C9_FilterInOrder ==
    (pc = "returned" /\ rawFeatures.t = "object") =>
        LET es == rawFeatures.entries
            keep == {i \in 1..Len(es) : es[i].value.t \in {"boolean", "string", "number"}}
            rank(i) == Cardinality({j \in keep : j <= i})
        IN  /\ thrown = ""
            /\ result.kind = "features"
            /\ Len(result.features) = Cardinality(keep)
            /\ \A i \in keep :
                result.features[rank(i)] = [name |-> es[i].name, value |-> es[i].value]

C9_Witness ==
    /\ pc = "returned"
    /\ rawFeatures.entries = <<[name |-> "count", value |-> Int2(0)],
                               [name |-> "rare", value |-> Null],
                               [name |-> "size", value |-> Str("large")]>>
    /\ result.features = <<[name |-> "count", value |-> Int2(0)],
                           [name |-> "size", value |-> Str("large")]>>

\* C10: in features, once page.goto has resolved, if the page has no feature
\* global, or the read loses the race against the 10 s ceiling, or the value
\* read is null, an array or no object, the invocation ends with the single
\* response 200 [] and no error leaves the handler.
C10_NoFeaturesGivesEmptyList ==
    (/\ handler = "features"
     /\ pc = "done"
     /\ Did("goto")
     /\ ~Happened("goto", "TimeoutError")
     /\ ~Happened("goto", "Error")
     /\ \/ Happened("sleep", "fired")
        \/ \E k \in {"undefined", "function", "null", "array", "number", "string", "boolean"} :
              Happened("evaluate", k)) =>
        /\ sent = <<[status |-> 200, type |-> "application/json", text |-> "",
                     data |-> Features(<<>>)]>>
        /\ thrown = ""
        /\ error = ""

C10_Witness ==
    /\ handler = "features"
    /\ pc = "done"
    /\ Happened("evaluate", "array")
    /\ Len(sent) = 1
    /\ sent[1].status = 200
    /\ sent[1].data = Features(<<>>)

\* The CANVAS extraction of a capture handler failed after a navigation that
\* answered 200: no element, an element that is not a canvas, or a failed read
CanvasExtractionFailed ==
    /\ isCapture
    /\ Happened("goto", "200")
    /\ \E o \in {"noElement", "notCanvas", "Error"} : Happened("$eval", o)

\* C11: in CANVAS mode, once the navigation answered 200, a selector matching
\* no element, an element that is not a canvas, or a failing data URL read is
\* answered with 500 CANVAS_CAPTURE_FAILED and nothing else, and the browser
\* is closed when the invocation ends.
C11_CanvasCaptureFailed ==
    CanvasExtractionFailed =>
        /\ StrictEquals(body.mode, Str("CANVAS"))
        /\ error = "CANVAS_CAPTURE_FAILED"
        /\ pc \in {"catch", "finally", "done"}
        /\ pc = "catch" => sent = <<>>
        /\ pc \in {"finally", "done"} => RejectedWith("CANVAS_CAPTURE_FAILED")
        /\ pc = "done" => Closes = 1

C11_Witness ==
    /\ handler = "capture"
    /\ Happened("goto", "200")
    /\ Happened("$eval", "notCanvas")
    /\ pc = "done"
    /\ sent = <<ErrorResponse("CANVAS_CAPTURE_FAILED")>>
    /\ Closes = 1

\* A capture handler ended after a successful capture of result.byteLength bytes
CaptureSucceeded ==
    /\ isCapture
    /\ pc = "done"
    /\ result.kind = "image"

JpegResponse == [status |-> 200, type |-> "image/jpeg", text |-> "", data |-> Compressed]
PngResponse == [status |-> 200, type |-> "image/png", text |-> "", data |-> result]

\* C12 as stated: after a successful capture of n bytes that is answered, the
\* response is the re-encoded image/jpeg if n >= 10 MiB and the unchanged
\* image/png if n < 10 MiB, the bound of exactly 10 MiB going to the jpeg side.
C12_JpegFromTenMiB ==
    (CaptureSucceeded /\ sent # <<>>) =>
        IF result.byteLength >= TEN_MIB
        THEN sent = <<JpegResponse>>
        ELSE sent = <<PngResponse>>

\* C12: after a successful capture of n bytes, n > 10 MiB sends the image to
\* sharp, and the response is the re-encoded image/jpeg, or there is none and
\* the sharp error leaves the handler; n <= 10 MiB, exactly 10 MiB included,
\* is answered with the unchanged bytes as image/png.
C12_JpegAboveTenMiB ==
    CaptureSucceeded =>
        IF result.byteLength > TEN_MIB
        THEN \/ sent = <<JpegResponse>> /\ thrown = ""
             \/ sent = <<>> /\ thrown = "Error" /\ Happened("sharp", "Error")
        ELSE sent = <<PngResponse>> /\ thrown = ""

C12_Witness ==
    /\ CaptureSucceeded
    /\ result.byteLength = TEN_MIB
    /\ sent = <<PngResponse>>

\* C13: isUrlValid returns false without throwing for a null, undefined or
\* empty url, so that a features request carrying no url is rejected with
\* UNSUPPORTED_URL and with no other exception.
C13_NoUrlIsUnsupported ==
    (handler = "features" /\ IsPost /\ PastValidation /\ ~UrlTruthy(body.url)) =>
        /\ ~isUrlValid(body.url).threw
        /\ ~isUrlValid(body.url).value
        /\ error = "UNSUPPORTED_URL"
        /\ pc = "done" => RejectedWith("UNSUPPORTED_URL")

\* The request runs the FN_TRIGGER wait of waitPreview
FnTriggerWait ==
    /\ handler = "capture"
    /\ StrictEquals(effectiveTriggerMode(body), Str("FN_TRIGGER"))

\* C14: the FN_TRIGGER wait completes when the event is seen or when the
\* ceiling of DELAY_MAX elapses, at the latest by the ceiling in every
\* execution, the failure of the in-page listener evaluation included: once
\* the ceiling timer has fired, the invocation is past the wait.
C14_WaitCompletesByCeiling ==
    (FnTriggerWait /\ timerP = "fired") => pc \notin {"wait", "waiting", "hung"}

(***************************************************************************)
(* Scheduling.  Every continuation of the handler runs on the event loop   *)
(* once the promise or timer it awaits has settled, every timer fires and  *)
(* every browser operation returns or fails in the end: a step that stays  *)
(* possible is taken.                                                      *)
(***************************************************************************)

FairSpec == Init /\ [][Next]_vars /\ WF_vars(Next)

\* C15: every invocation that launched a browser calls close() in the end and
\* ends, whatever stage fails, the in-page evaluation of the wait included.
C15_LaunchLeadsToRelease ==
    (Launches = 1) ~> (pc = "done" /\ Closes = 1)

\* The lowest-numbered rule of the stated order that the request violates,
\* 0 if it violates none
C16_FirstViolated ==
    IF ~UrlTruthy(body.url) \/ ~ToBoolean(body.mode) THEN 1
    ELSE IF ~UrlAllowListed THEN 2
    ELSE IF body.mode \notin {Str("VIEWPORT"), Str("CANVAS")} THEN 3
    ELSE IF ~isTriggerValid(effectiveTriggerMode(body), body.delay) THEN 4
    ELSE IF body.mode = Str("VIEWPORT") /\ viewportResolution(body.resX, body.resY) # "" THEN 5
    ELSE IF body.mode = Str("CANVAS") /\ ~ToBoolean(body.canvasSelector) THEN 6
    ELSE 0

\* The codes the stated order gives to each rule
C16_Codes ==
    <<{"MISSING_PARAMETERS"}, {"UNSUPPORTED_URL"}, {"MISSING_PARAMETERS"},
      {"INVALID_TRIGGER_PARAMETERS"}, {"MISSING_PARAMETERS", "INVALID_PARAMETERS"},
      {"INVALID_PARAMETERS"}>>

\* C16: capture validation applies (1) url and mode present, (2) url
\* allow-listed, (3) mode supported, (4) trigger parameters valid, (5) VIEWPORT
\* resolution, (6) CANVAS selector in this order, and a request is rejected
\* with the code of the lowest-numbered rule it violates.  Stated for the
\* requests whose url is absent or a string.
C16_LowestRuleWins ==
    (handler = "capture" /\ IsPost /\ PastValidation
        /\ body.url.t \in {"undefined", "null", "string"}) =>
        IF C16_FirstViolated = 0
        THEN ValidationPassed
        ELSE \E code \in C16_Codes[C16_FirstViolated] :
                /\ ValidationThrew(code)
                /\ pc = "done" => RejectedWith(code)

\* The invocation is in, or has been through, the wait or the extraction
ReachedWait ==
    \/ pc \in {"wait", "waiting", "hung", "extract"}
    \/ \E op \in {"sleep", "evaluate", "$eval", "screenshot"} : Did(op)

\* C17: in the capture handlers a navigation that raises a TimeoutError is
\* answered 500 TIMEOUT, one that raises anything else 500 UNKNOWN, one that
\* completes with a status other than 200 500 HTTP_ERROR, and only a
\* navigation that completed with status 200 reaches the wait and the
\* extraction.
C17_NavigationClassified ==
    isCapture =>
        /\ Happened("goto", "TimeoutError") =>
            /\ pc \in {"catch", "finally", "done"}
            /\ error = "TIMEOUT"
            /\ pc = "done" => RejectedWith("TIMEOUT")
        /\ Happened("goto", "Error") =>
            /\ pc \in {"catch", "finally", "done"}
            /\ errorBody(error) = "UNKNOWN"
            /\ pc = "done" => RejectedWith("UNKNOWN")
        /\ Happened("goto", "404") =>
            /\ pc \in {"status", "catch", "finally", "done"}
            /\ pc # "status" => error = "HTTP_ERROR"
            /\ pc = "done" => RejectedWith("HTTP_ERROR")
        /\ ReachedWait => Happened("goto", "200") /\ response = 200

C17_Witness ==
    /\ handler = "capture"
    /\ Happened("goto", "TimeoutError")
    /\ pc = "done"
    /\ sent = <<ErrorResponse("TIMEOUT")>>

\* A step of features failed with an error that is not tolerated, and the
\* value that the step raised
FeaturesFailure ==
    IF ~UrlAllowListed /\ PastValidation /\ IsPost
    THEN (IF body.url.t = "string" THEN "UNSUPPORTED_URL" ELSE "TypeError")
    ELSE IF \E op \in {"launch", "newPage", "setViewport", "goto"} : Happened(op, "Error")
    THEN "Error"
    ELSE IF Happened("goto", "TimeoutError")
    THEN "TimeoutError"
    ELSE IF Happened("evaluate", "Error") /\ race = "rejected"
    THEN "PAGE_EVALUATE_FAILED"
    ELSE ""

C19_AtMostOneResponse ==
    /\ Len(sent) <= 1
    /\ Cardinality({i \in 1..Len(events) : events[i].op = "send"}) = Len(sent)
    /\ sent # <<>> => pc \in {"finally", "done"}

C19_Witness ==
    /\ pc = "done"
    /\ Len(sent) = 1
    /\ sent[1].status = 500
    /\ Closes = 1

\* The abandoned side of a settled race completes or fails in this step
AbandonedSideSettles ==
    /\ race \in {"resolved", "rejected"}
    /\ \/ timerP = "pending" /\ timerP' = "fired"
       \/ evalP = "pending" /\ evalP' \in {"resolved", "rejected"}

\* C20: in the race of waitPreview and in the race of features, once one side
\* has won, the later completion or failure of the other side changes neither
\* the result nor the response nor the course of the handler: no second
\* capture, no second resolve, no second response.
C20_AbandonedSideIsInert ==
    [][AbandonedSideSettles =>
        UNCHANGED <<pc, race, rawFeatures, result, error, completion, thrown, sent, events>>]_vars

\* Both sides of a race have settled and the invocation has answered once
C20_Witness ==
    /\ race = "resolved"
    /\ timerP = "fired"
    /\ evalP \in {"resolved", "rejected"}
    /\ pc = "done"
    /\ Len(sent) = 1
    /\ sent[1].status = 200

====
